---- MODULE Spec2Model ----
(***************************************************************************)
(* Titan Bot webhook relay (src/app.py): the per-ticker EMA state store,   *)
(* the EMA-alignment entry filter, the exit path and the last-trade        *)
(* ledger, served by concurrently running request handlers.                *)
(*                                                                         *)
(* Python values are records tagged by "ty"; Python strings that the code  *)
(* inspects character by character (flags, numbers, tickers) are sequences *)
(* of one-character strings.  A dict is a function whose DOMAIN is its key *)
(* set.                                                                    *)
(***************************************************************************)
EXTENDS Integers, Sequences, FiniteSets, TLC

\* ------------------------------------------------------------------ bounds
\* Number of request-handling threads the hosting runtime runs in parallel.
NumThreads == 2
\* Number of inbound requests over the life of a behaviour.
MaxMsgs == 3

Threads == 1..NumThreads

\* ----------------------------------------------------------- Python values
PyNone == [ty |-> "none"]
PyStrV(chars) == [ty |-> "str", s |-> chars]
PyBool(b) == [ty |-> "bool", b |-> b]
PyInt(n) == [ty |-> "int", n |-> n]
\* A JSON array; its elements play no part in what the code does with it.
PyList == [ty |-> "list"]
\* A float, kept exactly: integer part and fraction digits without trailing
\* zeros.
PyFloat(ip, fp) == [ty |-> "float", ip |-> ip, fp |-> fp]
\* A JSON string that holds a line of text, kept as the tokens of the line.
PyText(toks) == [ty |-> "text", toks |-> toks]

EmptyDict == [k \in {} |-> PyNone]

\* dict.get(key, default)
DictGet(d, key, default) == IF key \in DOMAIN d THEN d[key] ELSE default

\* bool(v): Python truthiness of a JSON value.
Truthy(v) ==
    CASE v.ty = "none" -> FALSE
      [] v.ty = "str" -> v.s # <<>>
      [] v.ty = "bool" -> v.b
      [] v.ty = "int" -> v.n # 0
      [] v.ty = "list" -> TRUE
      [] v.ty = "float" -> ~(v.ip = 0 /\ v.fp = <<>>)

\* ------------------------------------------------------------ str / lower
Digits == <<"0", "1", "2", "3", "4", "5", "6", "7", "8", "9">>
DigitSet == {Digits[i] : i \in 1..10}
DigitVal(c) == (CHOOSE i \in 1..10 : Digits[i] = c) - 1

Upper == <<"A", "B", "C", "D", "E", "F", "G", "H", "I", "J", "K", "L", "M",
           "N", "O", "P", "Q", "R", "S", "T", "U", "V", "W", "X", "Y", "Z">>
Lower == <<"a", "b", "c", "d", "e", "f", "g", "h", "i", "j", "k", "l", "m",
           "n", "o", "p", "q", "r", "s", "t", "u", "v", "w", "x", "y", "z">>
UpperSet == {Upper[i] : i \in 1..26}

\* str.lower() on one character.
LowerChar(c) ==
    IF c \in UpperSet THEN Lower[CHOOSE i \in 1..26 : Upper[i] = c] ELSE c

\* str.lower()
StrLower(chars) == [i \in 1..Len(chars) |-> LowerChar(chars[i])]

RECURSIVE NatChars(_)
\* The decimal digits of a natural number.
NatChars(n) ==
    IF n < 10 THEN <<Digits[n + 1]>>
    ELSE NatChars(n \div 10) \o <<Digits[(n % 10) + 1]>>

\* str(v) for the JSON values a message field can hold.
PyStr(v) ==
    CASE v.ty = "str" -> v.s
      [] v.ty = "bool" -> IF v.b THEN <<"T", "r", "u", "e">>
                          ELSE <<"F", "a", "l", "s", "e">>
      [] v.ty = "none" -> <<"N", "o", "n", "e">>
      [] v.ty = "int" -> IF v.n < 0 THEN <<"-">> \o NatChars(-v.n)
                         ELSE NatChars(v.n)
      [] v.ty = "list" -> <<"[", "]">>

\* ------------------------------------------------------------------ float
RECURSIVE DigitsValue(_)
DigitsValue(chars) ==
    IF chars = <<>> THEN 0
    ELSE 10 * DigitsValue(SubSeq(chars, 1, Len(chars) - 1))
         + DigitVal(chars[Len(chars)])

RECURSIVE StripZeros(_)
\* Drop trailing zeros of a fraction.
StripZeros(chars) ==
    IF chars # <<>> /\ chars[Len(chars)] = "0"
    THEN StripZeros(SubSeq(chars, 1, Len(chars) - 1))
    ELSE chars

DotPositions(chars) == {i \in 1..Len(chars) : chars[i] = "."}

\* Whether float(str) accepts the text: digits with at most one point and at
\* least one digit.  (Signs, exponents, blanks and the words nan/inf, which
\* float() also accepts, are outside the alphabet of the inputs modelled.)
IsDecimal(chars) ==
    /\ \A i \in 1..Len(chars) : chars[i] \in DigitSet \cup {"."}
    /\ Cardinality(DotPositions(chars)) <= 1
    /\ \E i \in 1..Len(chars) : chars[i] \in DigitSet

\* float(str) for an accepted text.
DecimalValue(chars) ==
    LET dots == DotPositions(chars)
        p == IF dots = {} THEN Len(chars) + 1 ELSE CHOOSE i \in dots : TRUE
    IN PyFloat(DigitsValue(SubSeq(chars, 1, p - 1)),
               StripZeros(SubSeq(chars, p + 1, Len(chars))))

\* Whether float(v) raises.
FloatRaises(v) ==
    CASE v.ty = "str" -> ~IsDecimal(v.s)
      [] v.ty = "none" -> TRUE
      [] v.ty = "list" -> TRUE
      [] OTHER -> FALSE

\* float(v) when it does not raise.
FloatOf(v) ==
    CASE v.ty = "str" -> DecimalValue(v.s)
      [] v.ty = "int" -> PyFloat(v.n, <<>>)
      [] v.ty = "bool" -> PyFloat(IF v.b THEN 1 ELSE 0, <<>>)
      [] v.ty = "float" -> v

Zero == PyFloat(0, <<>>)

\* ------------------------------------------------ update_ema_state_from_json
True4 == <<"t", "r", "u", "e">>

\* A slip: the comparison made without .lower().
FlagOfCaseSensitive(data, key) ==
    PyStr(DictGet(data, key, PyStrV(<<>>))) = True4

\* True iff str(data.get(key, "")).lower() == "true"
FlagOf(data, key) ==
    StrLower(PyStr(DictGet(data, key, PyStrV(<<>>)))) = True4

\* float(data.get(key, 0.0)), 0.0 when float() raises
NumOf(data, key) ==
    LET v == DictGet(data, key, Zero)
    IN IF FloatRaises(v) THEN Zero ELSE FloatOf(v)

\* The dict stored for the ticker.
EmaSnapshot(data) ==
    [above13 |-> FlagOf(data, "above13"),
     above200 |-> FlagOf(data, "above200"),
     ema13 |-> NumOf(data, "ema13"),
     ema200 |-> NumOf(data, "ema200"),
     close |-> NumOf(data, "close"),
     time |-> DictGet(data, "time", PyStrV(<<>>))]

\* d[key] = value
DictSet(d, key, value) ==
    [k \in DOMAIN d \cup {key} |-> IF k = key THEN value ELSE d[k]]

\* A slip: `if ticker is None: return`, which lets an empty ticker through.
UpdateSkippedIfNone(data) == DictGet(data, "ticker", PyNone) = PyNone

\* `if not ticker: return`
UpdateSkipped(data) == ~Truthy(DictGet(data, "ticker", PyNone))

\* EMA_STATE[ticker] = {...} raises TypeError for an unhashable ticker (a
\* JSON array); the floats and flags are computed before it and cannot raise.
UpdateRaises(data) ==
    /\ ~UpdateSkipped(data)
    /\ DictGet(data, "ticker", PyNone).ty = "list"

\* A plausible slip: merge the message into the prior snapshot, keeping the
\* stored value of every field the message omits.
UpdateEmaStateMerging(ema_state, data) ==
    IF UpdateSkipped(data) \/ UpdateRaises(data) THEN ema_state
    ELSE LET t == data["ticker"]
             new == EmaSnapshot(data)
             old == IF t \in DOMAIN ema_state THEN ema_state[t] ELSE new
             pick(k) == IF k \in DOMAIN data THEN new[k] ELSE old[k]
         IN DictSet(ema_state, t,
                [above13 |-> pick("above13"),
                 above200 |-> pick("above200"),
                 ema13 |-> pick("ema13"),
                 ema200 |-> pick("ema200"),
                 close |-> pick("close"),
                 time |-> pick("time")])

\* A plausible slip: a running count of the updates of a ticker kept in its
\* snapshot.
UpdateEmaStateCounting(ema_state, data) ==
    IF UpdateSkipped(data) \/ UpdateRaises(data) THEN ema_state
    ELSE LET t == data["ticker"]
             seen == IF t \in DOMAIN ema_state THEN ema_state[t].updates
                     ELSE 0
             new == EmaSnapshot(data)
         IN DictSet(ema_state, t,
                [k \in DOMAIN new \cup {"updates"} |->
                    IF k = "updates" THEN seen + 1 ELSE new[k]])

\* EMA_STATE after update_ema_state_from_json(data).
UpdateEmaState(ema_state, data) ==
    IF UpdateSkipped(data) \/ UpdateRaises(data) THEN ema_state
    ELSE DictSet(ema_state, data["ticker"], EmaSnapshot(data))

\* ------------------------------------------------------ free-text patterns
\* A request body is a sequence of tokens separated by blanks: words (runs of
\* non-blank characters), the literal pieces of the two patterns, or a whole
\* JSON object.
Word(chars) == [ty |-> "word", s |-> chars]
Lit(w) == [ty |-> "lit", w |-> w]
Object(d) == [ty |-> "object", d |-> d]

IsLit(tok, w) == tok.ty = "lit" /\ tok.w = w

TickerClass == UpperSet \cup DigitSet \cup {"_"}
PriceClass == DigitSet \cup {"."}

\* (?P<ticker>[A-Z0-9_]+)\s+ : the longest run of ticker characters that ends
\* the word (the search takes the leftmost start).
TickerSuffix(chars) ==
    LET starts == {i \in 1..Len(chars) :
                      \A j \in i..Len(chars) : chars[j] \in TickerClass}
    IN IF starts = {} THEN <<>>
       ELSE SubSeq(chars, CHOOSE i \in starts : \A j \in starts : i <= j,
                   Len(chars))

\* (?P<price>[0-9.]+) : the longest run of price characters that starts the
\* word.
PricePrefix(chars) ==
    LET ends == {i \in 0..Len(chars) :
                    \A j \in 1..i : chars[j] \in PriceClass}
    IN SubSeq(chars, 1, CHOOSE i \in ends : \A j \in ends : j <= i)

HasTicker(tok) == tok.ty = "word" /\ TickerSuffix(tok.s) # <<>>
HasPrice(tok) == tok.ty = "word" /\ PricePrefix(tok.s) # <<>>

\* TITAN_RE matches with its ticker in token i.
TitanAt(text, i) ==
    /\ i + 5 <= Len(text)
    /\ HasTicker(text[i])
    /\ IsLit(text[i + 1], "New Trade Design")
    /\ IsLit(text[i + 2], ",")
    /\ IsLit(text[i + 3], "Price")
    /\ IsLit(text[i + 4], "=")
    /\ HasPrice(text[i + 5])

\* EXIT_RE matches with its ticker in token i; the comma is optional.  The
\* value is the position of the price token, 0 when there is no match.
ExitPriceAt(text, i) ==
    IF /\ i + 5 <= Len(text)
       /\ HasTicker(text[i])
       /\ IsLit(text[i + 1], "Exit Signal")
       /\ IsLit(text[i + 2], ",")
       /\ IsLit(text[i + 3], "Price")
       /\ IsLit(text[i + 4], "=")
       /\ HasPrice(text[i + 5])
    THEN i + 5
    ELSE IF /\ i + 4 <= Len(text)
            /\ HasTicker(text[i])
            /\ IsLit(text[i + 1], "Exit Signal")
            /\ IsLit(text[i + 2], "Price")
            /\ IsLit(text[i + 3], "=")
            /\ HasPrice(text[i + 4])
         THEN i + 4
         ELSE 0

\* {"ticker": ..., "price": float(...)}, the price left out when float raises
ParsedSignal(tickerTok, priceTok) ==
    LET t == PyStrV(TickerSuffix(tickerTok.s))
        p == PricePrefix(priceTok.s)
    IN IF IsDecimal(p)
       THEN [k \in {"ticker", "price"} |->
                IF k = "ticker" THEN t ELSE DecimalValue(p)]
       ELSE [k \in {"ticker"} |-> t]

\* parse_titan_new_trade(text)
ParseTitanNewTrade(text) ==
    LET hits == {i \in 1..Len(text) : TitanAt(text, i)}
    IN IF hits = {} THEN EmptyDict
       ELSE LET i == CHOOSE h \in hits : \A g \in hits : h <= g
            IN ParsedSignal(text[i], text[i + 5])

\* parse_exit_signal(text)
ParseExitSignal(text) ==
    LET hits == {i \in 1..Len(text) : ExitPriceAt(text, i) # 0}
    IN IF hits = {} THEN EmptyDict
       ELSE LET i == CHOOSE h \in hits : \A g \in hits : h <= g
            IN ParsedSignal(text[i], text[ExitPriceAt(text, i)])

\* json.loads(raw_body) gave a dict
IsJsonObject(body) == Len(body) = 1 /\ body[1].ty = "object"
JsonData(body) == body[1].d

RECURSIVE TextOfValues(_, _)
\* The lines of text among the values of a JSON object.
TextOfValues(d, keys) ==
    IF keys = {} THEN <<>>
    ELSE LET k == CHOOSE x \in keys : TRUE
         IN d[k].toks \o TextOfValues(d, keys \ {k})

\* raw_body as the two regular expressions see it: they search the text of
\* the body whether or not json.loads accepted it, so what a JSON document
\* carries inside its strings is text they can match.
RawText(body) ==
    IF IsJsonObject(body)
    THEN TextOfValues(JsonData(body),
                      {k \in DOMAIN JsonData(body) :
                          JsonData(body)[k].ty = "text"})
    ELSE body

\* --------------------------------------------------- send_to_traderspost
\* What requests.post can come to: a success response, a non-success
\* response, or an exception (connection error, timeout).
PostOutcomes ==
    {[ok |-> TRUE, status_code |-> 200, body |-> "accepted"],
     [ok |-> FALSE, status_code |-> 500, body |-> "rejected"],
     [ok |-> FALSE, error |-> "timed out"]}

\* A slip: the check of TP_WEBHOOK_URL left out, so that requests.post is
\* called with an empty URL and its exception is what comes back.
SendToTraderspostUnchecked(url, payload) ==
    IF url = "" THEN {[ok |-> FALSE, error |-> "Invalid URL ''"]}
    ELSE PostOutcomes

\* The dicts send_to_traderspost(payload) can return: the fixed failure when
\* no URL is configured, else whatever requests.post comes to.
SendToTraderspost(url, payload) ==
    IF url = "" THEN {[ok |-> FALSE, error |-> "TP_WEBHOOK_URL not set"]}
    ELSE PostOutcomes

\* Lines 33-37: how many times one call of send_to_traderspost reaches
\* requests.post.
PostsMade(url) == IF url = "" THEN 0 ELSE 1

\* result.get("ok", False)
ResultOk(result) == IF "ok" \in DOMAIN result THEN result.ok ELSE FALSE

\* ------------------------------------------- handle_new_trade_for_ticker
Skip(reason) == [skipped |-> reason]
Go(direction, info) == [direction |-> direction, ema_info |-> info]
IsSkip(d) == "skipped" \in DOMAIN d

\* A slip: the two directions exchanged.
DecideEntrySwapped(ema_state, ticker) ==
    IF ticker \notin DOMAIN ema_state THEN Skip("no_ema_state")
    ELSE LET info == ema_state[ticker]
         IN IF info.above13 /\ info.above200 THEN Go("sell", info)
            ELSE IF ~info.above13 /\ ~info.above200 THEN Go("buy", info)
            ELSE Skip("ema_alignment_filter")

\* A slip: the short branch left out, so that only longs pass the filter.
DecideEntryLongOnly(ema_state, ticker) ==
    IF ticker \notin DOMAIN ema_state THEN Skip("no_ema_state")
    ELSE LET info == ema_state[ticker]
         IN IF info.above13 /\ info.above200 THEN Go("buy", info)
            ELSE Skip("ema_alignment_filter")

\* A slip: `or` for `and` in the long condition.
DecideEntryEitherAbove(ema_state, ticker) ==
    IF ticker \notin DOMAIN ema_state THEN Skip("no_ema_state")
    ELSE LET info == ema_state[ticker]
         IN IF info.above13 \/ info.above200 THEN Go("buy", info)
            ELSE IF ~info.above13 /\ ~info.above200 THEN Go("sell", info)
            ELSE Skip("ema_alignment_filter")

\* A slip: EMA_STATE.get(ticker, {}) with flags defaulting to False, so that
\* a ticker without state is traded short.
DecideEntryDefaulting(ema_state, ticker) ==
    LET info == IF ticker \in DOMAIN ema_state THEN ema_state[ticker]
                ELSE [above13 |-> FALSE, above200 |-> FALSE,
                      ema13 |-> Zero, ema200 |-> Zero, close |-> Zero,
                      time |-> PyStrV(<<>>)]
    IN IF info.above13 /\ info.above200 THEN Go("buy", info)
       ELSE IF ~info.above13 /\ ~info.above200 THEN Go("sell", info)
       ELSE Skip("ema_alignment_filter")

\* Lines 138-164: the alignment rule on EMA_STATE.get(ticker).
DecideEntry(ema_state, ticker) ==
    IF ticker \notin DOMAIN ema_state THEN Skip("no_ema_state")
    ELSE LET info == ema_state[ticker]
         IN IF "above13" \notin DOMAIN info \/ "above200" \notin DOMAIN info
            THEN Skip("missing_ema_fields")
            ELSE IF info.above13 /\ info.above200 THEN Go("buy", info)
            ELSE IF ~info.above13 /\ ~info.above200 THEN Go("sell", info)
            ELSE Skip("ema_alignment_filter")

\* A slip: `>= 0` for `> 0` in the test of the default quantity.
EntryPayloadQtyNonNegative(ticker, direction, qty, price) ==
    [k \in {"ticker", "action"}
           \cup (IF qty >= 0 THEN {"quantity"} ELSE {})
           \cup (IF price # PyNone THEN {"price"} ELSE {}) |->
        CASE k = "ticker" -> ticker
          [] k = "action" -> direction
          [] k = "quantity" -> qty
          [] k = "price" -> price]

\* Lines 166-173: the order of an entry.
EntryPayload(ticker, direction, qty, price) ==
    [k \in {"ticker", "action"}
           \cup (IF qty > 0 THEN {"quantity"} ELSE {})
           \cup (IF price # PyNone THEN {"price"} ELSE {}) |->
        CASE k = "ticker" -> ticker
          [] k = "action" -> direction
          [] k = "quantity" -> qty
          [] k = "price" -> price]

\* Lines 193-198: the order of an exit.
ExitPayload(ticker, price) ==
    [k \in {"ticker", "action"}
           \cup (IF price # PyNone THEN {"price"} ELSE {}) |->
        CASE k = "ticker" -> ticker
          [] k = "action" -> "exit"
          [] k = "price" -> price]

\* Lines 177-186: the record of an entry.
NewTradeRecord(direction, price, info, result) ==
    [last_event |-> "new_trade",
     direction |-> direction,
     price |-> price,
     ema13_above |-> info.above13,
     ema200_above |-> info.above200,
     ema_snapshot |-> info,
     time |-> PyNone,
     tp_result |-> result]

\* Lines 202-207: the record of an exit.
ExitRecord(price, result) ==
    [last_event |-> "exit",
     price |-> price,
     time |-> PyNone,
     tp_result |-> result]

\* Lines 188 and 209, with the status the route derives from it.
TradeResponse(result) ==
    [status |-> IF ResultOk(result) THEN 200 ELSE 500,
     ok |-> ResultOk(result),
     detail |-> result]

\* A slip: the record written only for an accepted order.
RecordInLedgerIfOk(ledger, ticker, rec) ==
    IF ResultOk(rec.tp_result) THEN DictSet(ledger, ticker, rec) ELSE ledger

\* LAST_TRADES[ticker] = {...}
RecordInLedger(ledger, ticker, rec) == DictSet(ledger, ticker, rec)

\* ------------------------------------------------------------------ webhook
Chars_ema_update == <<"e", "m", "a", "_", "u", "p", "d", "a", "t", "e">>

\* Lines 217-220: the secret of the query string against WEBHOOK_SECRET.
Authorized(secret, args) ==
    secret = "" \/ ("secret" \in DOMAIN args /\ args.secret = secret)

\* A slip: the type of a JSON object not looked at.
ClassifyAnyObject(body) ==
    IF IsJsonObject(body) /\ DOMAIN JsonData(body) # {} THEN "ema_update"
    ELSE IF ParseTitanNewTrade(RawText(body)) # EmptyDict THEN "new_trade"
    ELSE IF ParseExitSignal(RawText(body)) # EmptyDict THEN "exit"
    ELSE "unrecognized"

\* A slip: the two patterns tried before json.loads.
ClassifyTextFirst(body) ==
    IF ParseTitanNewTrade(RawText(body)) # EmptyDict THEN "new_trade"
    ELSE IF ParseExitSignal(RawText(body)) # EmptyDict THEN "exit"
    ELSE IF IsJsonObject(body) /\ DOMAIN JsonData(body) # {}
    THEN IF DictGet(JsonData(body), "type", PyNone) = PyStrV(Chars_ema_update)
         THEN "ema_update"
         ELSE "unknown_json"
    ELSE "unrecognized"

\* Lines 225-259: which path the route takes for a body.
Classify(body) ==
    IF IsJsonObject(body) /\ DOMAIN JsonData(body) # {}
    THEN IF DictGet(JsonData(body), "type", PyNone) = PyStrV(Chars_ema_update)
         THEN "ema_update"
         ELSE "unknown_json"
    ELSE IF ParseTitanNewTrade(RawText(body)) # EmptyDict THEN "new_trade"
    ELSE IF ParseExitSignal(RawText(body)) # EmptyDict THEN "exit"
    ELSE "unrecognized"

\* Lines 222-254: what the route works out of a request before it touches
\* shared state: the path and, for a signal, the parser's dict.
Parsed(args, body) ==
    [args |-> args,
     raw_body |-> body,
     path |-> Classify(body),
     info |-> IF Classify(body) = "new_trade"
              THEN ParseTitanNewTrade(RawText(body))
              ELSE IF Classify(body) = "exit"
              THEN ParseExitSignal(RawText(body))
              ELSE EmptyDict]

\* ---------------------------------------------------------------- the state
VARIABLES
    WEBHOOK_SECRET,   \* configuration, read once from the environment
    TP_WEBHOOK_URL,
    TP_DEFAULT_QTY,
    EMA_STATE,        \* dict: ticker -> latest EMA snapshot
    LAST_TRADES,      \* dict: ticker -> last trade record
    th,               \* per thread: the frame of the request it is handling
    nreq,             \* requests received so far
    nposted,          \* calls of send_to_traderspost so far
    nhttp,            \* calls of requests.post so far
    last_order,       \* per ticker, the last order sent and its result
    answer            \* the request answered by the step just taken, if any

vars == <<WEBHOOK_SECRET, TP_WEBHOOK_URL, TP_DEFAULT_QTY, EMA_STATE,
          LAST_TRADES, th, nreq, nposted, nhttp, last_order, answer>>
config == <<WEBHOOK_SECRET, TP_WEBHOOK_URL, TP_DEFAULT_QTY>>
gateway == <<nposted, nhttp, last_order>>

Idle == [pc |-> "idle"]
NoAnswer == [path |-> "none"]

\* The environments the process is started in (lines 14-16).
Configs ==
    {<<"", "https://tp", 1>>,
     <<"s3cret", "", 0>>}

Init ==
    /\ \E c \in Configs :
          /\ WEBHOOK_SECRET = c[1]
          /\ TP_WEBHOOK_URL = c[2]
          /\ TP_DEFAULT_QTY = c[3]
    /\ EMA_STATE = EmptyDict
    /\ LAST_TRADES = EmptyDict
    /\ th = [r \in Threads |-> Idle]
    /\ nreq = 0
    /\ nposted = 0
    /\ nhttp = 0
    /\ last_order = EmptyDict
    /\ answer = NoAnswer

\* A request arrives at an idle thread.
Arrives(r) ==
    /\ th[r].pc = "idle"
    /\ nreq < MaxMsgs
    /\ nreq' = nreq + 1

\* The steps below run a request from its arrival to its first access to
\* shared state or to the gateway: what comes before is local to the thread
\* (the secret check, json.loads, the two regular expressions).  A step that
\* ends a request leaves its response in `answer`, with the thread, the path
\* taken and the body answered.

\* Lines 217-220, 238-239 and 258-259: the requests refused with an error.
Refuse(r, req) ==
    /\ Arrives(r)
    /\ \/ ~Authorized(WEBHOOK_SECRET, req.args)
       \/ req.path \in {"unknown_json", "unrecognized"}
    /\ answer' =
          IF ~Authorized(WEBHOOK_SECRET, req.args)
          THEN [path |-> "forbidden", thread |-> r,
                raw_body |-> req.raw_body,
                response |-> [status |-> 403, ok |-> FALSE,
                              error |-> "invalid secret"]]
          ELSE IF req.path = "unknown_json"
          THEN [path |-> "unknown_json", thread |-> r,
                raw_body |-> req.raw_body,
                response |-> [status |-> 400, ok |-> FALSE,
                              error |-> "unknown json type"]]
          ELSE [path |-> "unrecognized", thread |-> r,
                raw_body |-> req.raw_body,
                response |-> [status |-> 400, ok |-> FALSE,
                              error |-> "unrecognized payload"]]
    /\ UNCHANGED <<config, EMA_STATE, LAST_TRADES, th, gateway>>

\* A slip: the stored dict updated in place (EMA_STATE[ticker].update(...))
\* instead of replaced, so that the ema_snapshot of a trade record, which is
\* the same dict object, changes with it.
UpdateEmaInPlace(r, req) ==
    /\ Arrives(r)
    /\ Authorized(WEBHOOK_SECRET, req.args)
    /\ req.path = "ema_update"
    /\ EMA_STATE' = UpdateEmaState(EMA_STATE, JsonData(req.raw_body))
    /\ LAST_TRADES' =
          [t \in DOMAIN LAST_TRADES |->
              IF /\ LAST_TRADES[t].last_event = "new_trade"
                 /\ t \in DOMAIN EMA_STATE
                 /\ LAST_TRADES[t].ema_snapshot = EMA_STATE[t]
              THEN [LAST_TRADES[t] EXCEPT !.ema_snapshot = EMA_STATE'[t]]
              ELSE LAST_TRADES[t]]
    /\ answer' = [path |-> "ema_update", thread |-> r,
                  raw_body |-> req.raw_body,
                  response |-> IF UpdateRaises(JsonData(req.raw_body))
                               THEN [status |-> 500, ok |-> FALSE,
                                     error |-> "internal server error"]
                               ELSE [status |-> 200, ok |-> TRUE]]
    /\ UNCHANGED <<config, th, gateway>>

\* Lines 232-236: update_ema_state_from_json and the acknowledgement; an
\* exception leaves the route as a 500 response.
UpdateEma(r, req) ==
    /\ Arrives(r)
    /\ Authorized(WEBHOOK_SECRET, req.args)
    /\ req.path = "ema_update"
    /\ EMA_STATE' = UpdateEmaState(EMA_STATE, JsonData(req.raw_body))
    /\ answer' = [path |-> "ema_update", thread |-> r,
                  raw_body |-> req.raw_body,
                  response |-> IF UpdateRaises(JsonData(req.raw_body))
                               THEN [status |-> 500, ok |-> FALSE,
                                     error |-> "internal server error"]
                               ELSE [status |-> 200, ok |-> TRUE]]
    /\ UNCHANGED <<config, LAST_TRADES, th, gateway>>

\* A slip: the skipped signal written to the ledger as well.
NewTradeRecordingSkips(r, req) ==
    /\ Arrives(r)
    /\ Authorized(WEBHOOK_SECRET, req.args)
    /\ req.path = "new_trade"
    /\ LET ticker == req.info["ticker"]
           price == DictGet(req.info, "price", PyNone)
           d == DecideEntry(EMA_STATE, ticker)
       IN IF IsSkip(d)
          THEN /\ answer' = [path |-> "new_trade", thread |-> r,
                             raw_body |-> req.raw_body, ticker |-> ticker,
                             response |-> [status |-> 200, ok |-> TRUE,
                                           skipped |-> d.skipped]]
               /\ th' = th
               /\ LAST_TRADES' = DictSet(LAST_TRADES, ticker,
                        [last_event |-> "new_trade", price |-> price,
                         time |-> PyNone, skipped |-> d.skipped])
          ELSE /\ answer' = NoAnswer
               /\ th' = [th EXCEPT ![r] =
                    [pc |-> "send", path |-> "new_trade",
                     raw_body |-> req.raw_body,
                     ticker |-> ticker, price |-> price,
                     direction |-> d.direction, ema_info |-> d.ema_info,
                     tp_payload |-> EntryPayload(ticker, d.direction,
                                                 TP_DEFAULT_QTY, price)]]
               /\ LAST_TRADES' = LAST_TRADES
    /\ UNCHANGED <<config, EMA_STATE, gateway>>

\* Lines 242-246 and 138-173: an entry signal; handle_new_trade_for_ticker
\* reads the EMA state, applies the alignment rule and returns when
\* skipping, else builds the order it is about to send.
NewTrade(r, req) ==
    /\ Arrives(r)
    /\ Authorized(WEBHOOK_SECRET, req.args)
    /\ req.path = "new_trade"
    /\ LET ticker == req.info["ticker"]
           price == DictGet(req.info, "price", PyNone)
           d == DecideEntry(EMA_STATE, ticker)
       IN IF IsSkip(d)
          THEN /\ answer' = [path |-> "new_trade", thread |-> r,
                             raw_body |-> req.raw_body, ticker |-> ticker,
                             response |-> [status |-> 200, ok |-> TRUE,
                                           skipped |-> d.skipped]]
               /\ th' = th
          ELSE /\ answer' = NoAnswer
               /\ th' = [th EXCEPT ![r] =
                    [pc |-> "send", path |-> "new_trade",
                     raw_body |-> req.raw_body,
                     ticker |-> ticker, price |-> price,
                     direction |-> d.direction, ema_info |-> d.ema_info,
                     tp_payload |-> EntryPayload(ticker, d.direction,
                                                 TP_DEFAULT_QTY, price)]]
    /\ UNCHANGED <<config, EMA_STATE, LAST_TRADES, gateway>>

\* A slip: the exit put behind the check for EMA state that entries have.
ExitNeedingState(r, req) ==
    /\ Arrives(r)
    /\ Authorized(WEBHOOK_SECRET, req.args)
    /\ req.path = "exit"
    /\ LET ticker == req.info["ticker"]
           price == DictGet(req.info, "price", PyNone)
       IN IF ticker \notin DOMAIN EMA_STATE
          THEN /\ answer' = [path |-> "exit", thread |-> r,
                             raw_body |-> req.raw_body, ticker |-> ticker,
                             response |-> [status |-> 200, ok |-> TRUE,
                                           skipped |-> "no_ema_state"]]
               /\ th' = th
          ELSE /\ answer' = NoAnswer
               /\ th' = [th EXCEPT ![r] =
                    [pc |-> "send", path |-> "exit",
                     raw_body |-> req.raw_body,
                     ticker |-> ticker, price |-> price,
                     tp_payload |-> ExitPayload(ticker, price)]]
    /\ UNCHANGED <<config, EMA_STATE, LAST_TRADES, gateway>>

\* Lines 250-254 and 193-198: an exit signal; handle_exit_for_ticker builds
\* the exit order it is about to send.
Exit(r, req) ==
    /\ Arrives(r)
    /\ Authorized(WEBHOOK_SECRET, req.args)
    /\ req.path = "exit"
    /\ LET ticker == req.info["ticker"]
           price == DictGet(req.info, "price", PyNone)
       IN th' = [th EXCEPT ![r] =
            [pc |-> "send", path |-> "exit", raw_body |-> req.raw_body,
             ticker |-> ticker, price |-> price,
             tp_payload |-> ExitPayload(ticker, price)]]
    /\ answer' = NoAnswer
    /\ UNCHANGED <<config, EMA_STATE, LAST_TRADES, gateway>>

\* A slip: requests.post called outside try/except, so that a transport
\* error leaves the handler as an exception: a 500 response, no record.
SendUncaught(r) ==
    /\ th[r].pc = "send"
    /\ \E result \in SendToTraderspost(TP_WEBHOOK_URL, th[r].tp_payload) :
          /\ nposted' = nposted + 1
          /\ nhttp' = nhttp + PostsMade(TP_WEBHOOK_URL)
          /\ last_order' = DictSet(last_order, th[r].ticker,
                                   [payload |-> th[r].tp_payload,
                                    result |-> result])
          /\ IF "status_code" \in DOMAIN result \/ TP_WEBHOOK_URL = ""
             THEN /\ th' = [th EXCEPT ![r] =
                        [f \in DOMAIN th[r] \cup {"result"} |->
                            CASE f = "pc" -> "record"
                              [] f = "result" -> result
                              [] OTHER -> th[r][f]]]
                  /\ answer' = NoAnswer
             ELSE /\ th' = [th EXCEPT ![r] = Idle]
                  /\ answer' = [path |-> th[r].path, thread |-> r,
                                raw_body |-> th[r].raw_body,
                                ticker |-> th[r].ticker,
                                response |-> [status |-> 500, ok |-> FALSE,
                                      error |-> "internal server error"]]
    /\ UNCHANGED <<config, EMA_STATE, LAST_TRADES, nreq>>

\* A slip: an order that failed sent a second time.
SendRetrying(r) ==
    /\ th[r].pc = "send"
    /\ \E first, result \in SendToTraderspost(TP_WEBHOOK_URL,
                                             th[r].tp_payload) :
          /\ nposted' = nposted + (IF ResultOk(first) THEN 1 ELSE 2)
          /\ nhttp' = nhttp + PostsMade(TP_WEBHOOK_URL)
                          * (IF ResultOk(first) THEN 1 ELSE 2)
          /\ ResultOk(first) => result = first
          /\ last_order' = DictSet(last_order, th[r].ticker,
                                   [payload |-> th[r].tp_payload,
                                    result |-> result])
          /\ th' = [th EXCEPT ![r] =
                [f \in DOMAIN th[r] \cup {"result"} |->
                    CASE f = "pc" -> "record"
                      [] f = "result" -> result
                      [] OTHER -> th[r][f]]]
    /\ answer' = NoAnswer
    /\ UNCHANGED <<config, EMA_STATE, LAST_TRADES, nreq>>

\* Lines 175 and 200: the blocking call of send_to_traderspost.
Send(r) ==
    /\ th[r].pc = "send"
    /\ \E result \in SendToTraderspost(TP_WEBHOOK_URL, th[r].tp_payload) :
          /\ nposted' = nposted + 1
          /\ nhttp' = nhttp + PostsMade(TP_WEBHOOK_URL)
          /\ last_order' = DictSet(last_order, th[r].ticker,
                                   [payload |-> th[r].tp_payload,
                                    result |-> result])
          /\ th' = [th EXCEPT ![r] =
                [f \in DOMAIN th[r] \cup {"result"} |->
                    CASE f = "pc" -> "record"
                      [] f = "result" -> result
                      [] OTHER -> th[r][f]]]
    /\ answer' = NoAnswer
    /\ UNCHANGED <<config, EMA_STATE, LAST_TRADES, nreq>>

\* A slip: the EMA state of the ticker dropped once a trade on it is
\* recorded, as if a snapshot could be used for one order only.
RecordClearingEma(r) ==
    /\ th[r].pc = "record"
    /\ LAST_TRADES' = RecordInLedger(LAST_TRADES, th[r].ticker,
            IF th[r].path = "new_trade"
            THEN NewTradeRecord(th[r].direction, th[r].price, th[r].ema_info,
                                th[r].result)
            ELSE ExitRecord(th[r].price, th[r].result))
    /\ EMA_STATE' = [t \in DOMAIN EMA_STATE \ {th[r].ticker} |-> EMA_STATE[t]]
    /\ th' = [th EXCEPT ![r] = Idle]
    /\ answer' = [path |-> th[r].path, thread |-> r,
                  raw_body |-> th[r].raw_body, ticker |-> th[r].ticker,
                  response |-> TradeResponse(th[r].result)]
    /\ UNCHANGED <<config, nreq, gateway>>

\* Lines 177-188 and 202-209, and the status of lines 247 and 255: write the
\* trade record, return the outcome.
Record(r) ==
    /\ th[r].pc = "record"
    /\ LAST_TRADES' = RecordInLedger(LAST_TRADES, th[r].ticker,
            IF th[r].path = "new_trade"
            THEN NewTradeRecord(th[r].direction, th[r].price, th[r].ema_info,
                                th[r].result)
            ELSE ExitRecord(th[r].price, th[r].result))
    /\ th' = [th EXCEPT ![r] = Idle]
    /\ answer' = [path |-> th[r].path, thread |-> r,
                  raw_body |-> th[r].raw_body, ticker |-> th[r].ticker,
                  response |-> TradeResponse(th[r].result)]
    /\ UNCHANGED <<config, EMA_STATE, nreq, gateway>>

\* ------------------------------------------------------------- the inputs
MNQ == PyStrV(<<"M", "N", "Q">>)
ES == PyStrV(<<"E", "S">>)

Str_true == PyStrV(<<"t", "r", "u", "e">>)
Str_TRUE == PyStrV(<<"T", "R", "U", "E">>)
Str_false == PyStrV(<<"f", "a", "l", "s", "e">>)
Str_21050_25 == PyStrV(<<"2", "1", "0", "5", "0", ".", "2", "5">>)
Str_20980_0 == PyStrV(<<"2", "0", "9", "8", "0", ".", "0">>)
Str_abc == PyStrV(<<"a", "b", "c">>)
Str_ts == PyStrV(<<"0", "9", ":", "3", "0">>)
Str_unknown_kind == PyStrV(<<"u", "n", "k", "n", "o", "w", "n">>)

\* An ema_update object from a set of (key, value) pairs.
JsonObject(pairs) ==
    [k \in {p[1] : p \in pairs} |-> (CHOOSE p \in pairs : p[1] = k)[2]]

EmaUpdate(pairs) ==
    <<Object(JsonObject(pairs \cup {<<"type", PyStrV(Chars_ema_update)>>}))>>

\* "<ticker> New Trade Design , Price = <price>"
EntryText(tickerChars, priceChars) ==
    <<Word(tickerChars), Lit("New Trade Design"), Lit(","), Lit("Price"),
      Lit("="), Word(priceChars)>>

\* "<ticker> Exit Signal, Price = <price>"
ExitText(tickerChars, priceChars) ==
    <<Word(tickerChars), Lit("Exit Signal"), Lit(","), Lit("Price"),
      Lit("="), Word(priceChars)>>

Price_21065 == <<"2", "1", "0", "6", "5", ".", "0", "0">>
Price_bad == <<"1", ".", "2", ".", "3">>

\* The request bodies the service is driven with.
ServiceBodies ==
    {EmaUpdate({<<"ticker", MNQ>>, <<"above13", Str_TRUE>>,
                <<"above200", Str_true>>, <<"ema13", Str_21050_25>>,
                <<"ema200", Str_20980_0>>, <<"close", PyInt(21060)>>,
                <<"time", Str_ts>>}),
     EmaUpdate({<<"ticker", MNQ>>, <<"above13", Str_false>>,
                <<"ema13", Str_abc>>}),
     EmaUpdate({<<"ticker", MNQ>>, <<"above13", Str_true>>,
                <<"above200", Str_false>>}),
     EmaUpdate({<<"ticker", ES>>, <<"above13", Str_false>>,
                <<"above200", PyBool(TRUE)>>, <<"ema200", PyNone>>,
                <<"close", Str_20980_0>>}),
     EmaUpdate({<<"above13", Str_true>>, <<"above200", Str_true>>}),
     EmaUpdate({<<"ticker", PyStrV(<<>>)>>, <<"above13", Str_false>>,
                <<"above200", Str_false>>}),
     EmaUpdate({<<"ticker", PyList>>, <<"above13", Str_true>>}),
     <<Object(JsonObject({<<"type", Str_unknown_kind>>, <<"ticker", MNQ>>,
                          <<"above13", Str_true>>,
                          <<"above200", Str_true>>}))>>,
     EntryText(<<"M", "N", "Q">>, Price_21065),
     EntryText(<<"E", "S">>, Price_bad),
     ExitText(<<"M", "N", "Q">>, Price_21065),
     <<Word(<<"h", "e", "l", "l", "o">>)>>}

Tickers == {MNQ, ES}

\* The query strings a request comes with.
QueryArgs ==
    {[k \in {} |-> ""], [secret |-> "s3cret"]}

\* The requests the service is driven with, as the route parses them.
Requests == {Parsed(a, b) : a \in QueryArgs, b \in ServiceBodies}

\* ------------------------------------------------------------ specification
Next ==
    \E r \in Threads :
        \/ \E req \in Requests :
              \/ Refuse(r, req)
              \/ UpdateEma(r, req)
              \/ NewTrade(r, req)
              \/ Exit(r, req)
        \/ Send(r)
        \/ Record(r)

Spec == Init /\ [][Next]_vars

\* ------------------------------------------------- the signals in detail
\* "<ticker> Exit Signal Price = <price>", the comma left out
ExitTextNoComma(tickerChars, priceChars) ==
    <<Word(tickerChars), Lit("Exit Signal"), Lit("Price"), Lit("="),
      Word(priceChars)>>

\* An entry line and an exit line as they stand inside a JSON string: the
\* quote that opens the string is glued to the first word, the quote that
\* closes it and the brace to the last.
QuotedEntry ==
    PyText(EntryText(<<"\"", "M", "N", "Q">>, Price_21065 \o <<"\"", "}">>))
QuotedExit ==
    PyText(ExitText(<<"\"", "M", "N", "Q">>, Price_21065 \o <<"\"", "}">>))

\* A text that both patterns match: an exit line followed by an entry line.
BothPatternsText ==
    ExitText(<<"M", "N", "Q">>, Price_21065)
        \o EntryText(<<"M", "N", "Q">>, Price_21065)

\* The bodies that exercise the parsing of signals and the building of
\* orders: prices float() refuses, texts inside JSON, a text of both kinds.
SignalBodies ==
    {EmaUpdate({<<"ticker", MNQ>>, <<"above13", Str_false>>,
                <<"above200", Str_false>>, <<"msg", QuotedExit>>}),
     <<Object(JsonObject({<<"type", Str_unknown_kind>>,
                          <<"msg", QuotedEntry>>}))>>,
     EntryText(<<"M", "N", "Q">>, Price_bad),
     ExitText(<<"M", "N", "Q">>, Price_21065),
     ExitTextNoComma(<<"M", "N", "Q">>, Price_bad),
     BothPatternsText}

SignalRequests == {Parsed(a, b) : a \in QueryArgs, b \in SignalBodies}

NextSignals ==
    \E r \in Threads :
        \/ \E req \in SignalRequests :
              \/ Refuse(r, req)
              \/ UpdateEma(r, req)
              \/ NewTrade(r, req)
              \/ Exit(r, req)
        \/ Send(r)
        \/ Record(r)

SpecSignals == Init /\ [][NextSignals]_vars

\* ------------------------------------------- update_ema_state_from_json alone
Str_True == PyStrV(<<"T", "r", "u", "e">>)
Str_1 == PyStrV(<<"1">>)
Str_empty == PyStrV(<<>>)

\* The values a flag field comes with.
FlagRaws == {Str_true, Str_TRUE, Str_True, Str_false, Str_1, Str_empty,
             PyBool(TRUE)}

\* A field left out, or given one of the values.
Optional(key, values) == {{}} \cup {{<<key, v>>} : v \in values}

\* The ema_update messages the function is driven with.
UpdateBodies ==
    {EmaUpdate(t \cup a \cup b \cup {<<"ema13", Str_21050_25>>}) :
        t \in Optional("ticker", {MNQ, Str_empty}),
        a \in Optional("above13", FlagRaws),
        b \in Optional("above200", {Str_true})}

UpdateRequests == {Parsed(a, b) : a \in QueryArgs, b \in UpdateBodies}

\* The service receiving EMA updates only.
NextUpdate == \E r \in Threads : \E req \in UpdateRequests : UpdateEma(r, req)

SpecUpdate == Init /\ [][NextUpdate]_vars

\* ---------------------------------------------------------------- claims
\* What a step shows of the request it handled.
Answers(r) == answer'.path # "none" /\ answer'.thread = r
\* Thread r takes in a request in this step.
Arrival(r) ==
    /\ th[r].pc = "idle"
    /\ nreq' = nreq + 1
    /\ Answers(r) \/ th'[r].pc = "send"
\* Thread r takes in an entry signal for ticker t in this step.
EntryArrival(r, t) ==
    /\ Arrival(r)
    /\ \/ Answers(r) /\ answer'.path = "new_trade" /\ answer'.ticker = t
       \/ /\ th'[r].pc = "send"
          /\ th'[r].path = "new_trade"
          /\ th'[r].ticker = t
\* Thread r takes in an exit signal in this step.
ExitArrival(r) ==
    /\ Arrival(r)
    /\ \/ Answers(r) /\ answer'.path = "exit"
       \/ th'[r].pc = "send" /\ th'[r].path = "exit"
\* Thread r calls the gateway, or writes the ledger, in this step.
Sending(r) == th[r].pc = "send" /\ th'[r] # th[r]
Recording(r) == th[r].pc = "record" /\ th'[r] # th[r]

Aligned(info, b) == info.above13 = b /\ info.above200 = b

\* What the entry does from the alignment read at its arrival: the order it
\* builds, the order it sends and the record it writes carry direction dir.
EntryRuns(b, dir) ==
    \A r \in Threads :
        /\ \A t \in DOMAIN EMA_STATE :
              EntryArrival(r, t) /\ Aligned(EMA_STATE[t], b) =>
                 /\ th'[r].pc = "send"
                 /\ th'[r].ema_info = EMA_STATE[t]
                 /\ th'[r].direction = dir
                 /\ th'[r].tp_payload["action"] = dir
                 /\ th'[r].tp_payload["ticker"] = t
        /\ th[r].pc \in {"send", "record"} /\ th[r].path = "new_trade"
              /\ Aligned(th[r].ema_info, b) =>
                 /\ Sending(r) =>
                       /\ nposted' = nposted + 1
                       /\ last_order'[th[r].ticker].payload["action"] = dir
                 /\ Recording(r) =>
                       /\ LAST_TRADES'[th[r].ticker].last_event = "new_trade"
                       /\ LAST_TRADES'[th[r].ticker].direction = dir

\* C1: an entry signal for a ticker whose stored EMA state has above13 and
\* above200 both true is decided as a buy: the order it sends has action
\* "buy" and the record it writes has direction "buy".
C1_BothAboveBuys == [][EntryRuns(TRUE, "buy")]_vars

C1_Witness ==
    /\ MNQ \in DOMAIN LAST_TRADES
    /\ LAST_TRADES[MNQ].last_event = "new_trade"
    /\ LAST_TRADES[MNQ].direction = "buy"
    /\ Aligned(LAST_TRADES[MNQ].ema_snapshot, TRUE)
    /\ last_order[MNQ].payload["action"] = "buy"

\* C2: an entry signal for a ticker whose stored EMA state has above13 and
\* above200 both false is decided as a sell: the order it sends has action
\* "sell" and the record it writes has direction "sell".
C2_BothBelowSells == [][EntryRuns(FALSE, "sell")]_vars

C2_Witness ==
    /\ MNQ \in DOMAIN LAST_TRADES
    /\ LAST_TRADES[MNQ].last_event = "new_trade"
    /\ LAST_TRADES[MNQ].direction = "sell"
    /\ Aligned(LAST_TRADES[MNQ].ema_snapshot, FALSE)
    /\ last_order[MNQ].payload["action"] = "sell"

\* The entry for ticker t is answered at once as skipped for the reason
\* given: the thread stays idle, so it never reaches the gateway.
SkippedWith(r, t, reason) ==
    /\ Answers(r)
    /\ answer'.ticker = t
    /\ answer'.response.status = 200
    /\ answer'.response.ok
    /\ "skipped" \in DOMAIN answer'.response
    /\ answer'.response.skipped = reason
    /\ th'[r] = Idle
    /\ UNCHANGED gateway

\* C3: an entry signal for a ticker whose stored flags differ is answered as
\* skipped with reason "ema_alignment_filter" and never calls the gateway.
C3_MixedIsFiltered ==
    [][\A r \in Threads : \A t \in DOMAIN EMA_STATE :
          EntryArrival(r, t)
             /\ EMA_STATE[t].above13 # EMA_STATE[t].above200 =>
          SkippedWith(r, t, "ema_alignment_filter")]_vars

C3_Witness ==
    /\ answer.path = "new_trade"
    /\ "skipped" \in DOMAIN answer.response
    /\ answer.response.skipped = "ema_alignment_filter"
    /\ answer.ticker \in DOMAIN EMA_STATE
    /\ EMA_STATE[answer.ticker].above13
    /\ ~EMA_STATE[answer.ticker].above200
    /\ nposted = 0

\* C4 as stated: an entry signal for a ticker without stored EMA state is
\* answered as skipped with reason "no_trend_state".
C4_AbsentIsNoTrendState ==
    [][\A r \in Threads : \A t \in Tickers \ DOMAIN EMA_STATE :
          EntryArrival(r, t) => SkippedWith(r, t, "no_trend_state")]_vars

\* C4, amended: an entry signal for a ticker without stored EMA state is
\* answered as skipped with reason "no_ema_state" and never calls the
\* gateway.
C4_AbsentIsNoEmaState ==
    [][\A r \in Threads : \A t \in Tickers \ DOMAIN EMA_STATE :
          EntryArrival(r, t) => SkippedWith(r, t, "no_ema_state")]_vars

C4_Witness ==
    /\ answer.path = "new_trade"
    /\ "skipped" \in DOMAIN answer.response
    /\ answer.response.skipped = "no_ema_state"
    /\ answer.ticker \notin DOMAIN EMA_STATE
    /\ nposted = 0

IsExitFrame(r) == th[r].pc \in {"send", "record"} /\ th[r].path = "exit"

\* C5: an exit signal calls the gateway exactly once whatever EMA state its
\* ticker has, absent state included: it is never answered before its call,
\* it carries nothing of the EMA state, and its response is the outcome of
\* that call.
C5_ExitAlwaysSendsOnce ==
    [][\A r \in Threads :
          /\ ExitArrival(r) =>
                /\ th'[r].pc = "send"
                /\ th'[r].path = "exit"
                /\ th'[r].tp_payload["action"] = "exit"
                /\ "ema_info" \notin DOMAIN th'[r]
                /\ ~Answers(r)
                /\ nposted' = nposted
          /\ IsExitFrame(r) /\ Sending(r) =>
                /\ th'[r].pc = "record"
                /\ nposted' = nposted + 1
                /\ last_order'[th[r].ticker].payload["action"] = "exit"
                /\ last_order'[th[r].ticker].result = th'[r].result
          /\ IsExitFrame(r) /\ Recording(r) =>
                /\ nposted' = nposted
                /\ th'[r] = Idle
                /\ Answers(r)
                /\ answer'.path = "exit"
                /\ answer'.response.detail = th[r].result
                /\ answer'.response.ok = ResultOk(th[r].result)
                /\ "ema_snapshot" \notin DOMAIN LAST_TRADES'[th[r].ticker]
          /\ Answers(r) /\ answer'.path = "exit" => th[r].pc = "record"]_vars

C5_Witness ==
    /\ answer.path = "exit"
    /\ answer.ticker \notin DOMAIN EMA_STATE
    /\ answer.ticker \in DOMAIN LAST_TRADES
    /\ LAST_TRADES[answer.ticker].last_event = "exit"
    /\ nposted = 1

\* C6: every executed entry and every exit replaces the ticker's trade
\* record by the record of that event alone, whatever the gateway answered,
\* with that call's result in it; nothing else writes the ledger.
C6_LedgerHoldsLastFinalized ==
    [][/\ \A r \in Threads :
             /\ Sending(r) =>
                   th'[r].result = last_order'[th[r].ticker].result
             /\ Recording(r) =>
                   LET t == th[r].ticker
                       rec == LAST_TRADES'[t]
                   IN /\ DOMAIN LAST_TRADES' = DOMAIN LAST_TRADES \cup {t}
                      /\ \A u \in DOMAIN LAST_TRADES \ {t} :
                            LAST_TRADES'[u] = LAST_TRADES[u]
                      /\ rec.last_event = th[r].path
                      /\ rec.tp_result = th[r].result
                      /\ rec.price = th[r].price
                      /\ answer'.response.detail = rec.tp_result
                      /\ th[r].path = "exit" =>
                            DOMAIN rec = {"last_event", "price", "time",
                                          "tp_result"}
                      /\ th[r].path = "new_trade" =>
                            /\ rec.direction = th[r].direction
                            /\ rec.ema_snapshot = th[r].ema_info
       /\ LAST_TRADES' # LAST_TRADES => \E r \in Threads : Recording(r)]_vars

C6_Witness ==
    /\ \A r \in Threads : th[r] = Idle
    /\ nposted = 2
    /\ answer.path = "exit"
    /\ DOMAIN LAST_TRADES = {answer.ticker}
    /\ LAST_TRADES[answer.ticker].last_event = "exit"
    /\ ~ResultOk(LAST_TRADES[answer.ticker].tp_result)
    /\ answer.response.status = 500

\* The order a trade record stands for.
RecordedAction(rec) ==
    IF rec.last_event = "exit" THEN "exit" ELSE rec.direction

\* C7: once no handler is at work on a ticker, the trade record stored for
\* it is the record of the order sent last for it.
C7_RecordIsOfLastOrder ==
    \A t \in DOMAIN LAST_TRADES :
        (\A r \in Threads : th[r].pc = "idle" \/ th[r].ticker # t) =>
            /\ LAST_TRADES[t].tp_result = last_order[t].result
            /\ RecordedAction(LAST_TRADES[t]) = last_order[t].payload["action"]

\* C8: an entry signal that is skipped (no EMA state, or flags that differ)
\* leaves the ledger as it was and leaves no handler behind to write it.
C8_SkipLeavesLedger ==
    [][\A r \in Threads :
          /\ \A t \in Tickers :
                EntryArrival(r, t)
                   /\ (t \notin DOMAIN EMA_STATE
                       \/ EMA_STATE[t].above13 # EMA_STATE[t].above200) =>
                /\ LAST_TRADES' = LAST_TRADES
                /\ th'[r] = Idle
          /\ Answers(r) /\ "skipped" \in DOMAIN answer'.response =>
                LAST_TRADES' = LAST_TRADES]_vars

C8_Witness ==
    /\ answer.path = "new_trade"
    /\ "skipped" \in DOMAIN answer.response
    /\ answer.ticker \in DOMAIN LAST_TRADES
    /\ LAST_TRADES[answer.ticker].last_event = "exit"

\* The body the request taken in by thread r came with.
ArrivedBody(r) == IF Answers(r) THEN answer'.raw_body ELSE th'[r].raw_body

NonEmptyObject(body) == IsJsonObject(body) /\ DOMAIN JsonData(body) # {}

\* A non-empty JSON object whose type is not "ema_update", or a body that is
\* no such object and matches neither pattern.
IsClassificationError(body) ==
    IF NonEmptyObject(body)
    THEN DictGet(JsonData(body), "type", PyNone) # PyStrV(Chars_ema_update)
    ELSE \A i \in 1..Len(body) :
            ~TitanAt(body, i) /\ ExitPriceAt(body, i) = 0

\* C9: a request that is a classification error is answered with a client
\* error (400, or 403 when its secret is refused first), changes neither
\* store and does not call the gateway.
C9_ClassificationErrorIsInert ==
    [][\A r \in Threads :
          Arrival(r) /\ IsClassificationError(ArrivedBody(r)) =>
             /\ Answers(r)
             /\ ~answer'.response.ok
             /\ answer'.response.status =
                   IF answer'.path = "forbidden" THEN 403 ELSE 400
             /\ WEBHOOK_SECRET = "" => answer'.response.status = 400
             /\ th'[r] = Idle
             /\ UNCHANGED <<EMA_STATE, LAST_TRADES, gateway>>]_vars

C9_Witness ==
    /\ answer.path = "unknown_json"
    /\ answer.response.status = 400
    /\ NonEmptyObject(answer.raw_body)
    /\ JsonData(answer.raw_body)["ticker"] \notin DOMAIN EMA_STATE

SnapshotKeys == {"above13", "above200", "ema13", "ema200", "close", "time"}

\* The step answers an ema_update that names a ticker.
AcceptedUpdate(r) ==
    /\ Answers(r)
    /\ answer'.path # "forbidden"
    /\ NonEmptyObject(answer'.raw_body)
    /\ DictGet(JsonData(answer'.raw_body), "type", PyNone)
          = PyStrV(Chars_ema_update)
    /\ Truthy(DictGet(JsonData(answer'.raw_body), "ticker", PyNone))
    /\ answer'.response.status = 200

\* C10: an accepted update replaces the ticker's snapshot by one made from
\* the message alone, every omitted field at its default (False, 0.0, ""),
\* and leaves the snapshots of the other tickers as they were.
C10_UpdateReplacesSnapshot ==
    [][\A r \in Threads :
          AcceptedUpdate(r) =>
             LET data == JsonData(answer'.raw_body)
                 t == data["ticker"]
             IN /\ DOMAIN EMA_STATE' = DOMAIN EMA_STATE \cup {t}
                /\ \A u \in DOMAIN EMA_STATE \ {t} :
                      EMA_STATE'[u] = EMA_STATE[u]
                /\ DOMAIN EMA_STATE'[t] = SnapshotKeys
                /\ \A k \in {"above13", "above200"} \ DOMAIN data :
                      EMA_STATE'[t][k] = FALSE
                /\ \A k \in {"ema13", "ema200", "close"} \ DOMAIN data :
                      EMA_STATE'[t][k] = Zero
                /\ "time" \notin DOMAIN data =>
                      EMA_STATE'[t].time = PyStrV(<<>>)
                /\ EMA_STATE'[t] = EmaSnapshot(data)]_vars

C10_Witness ==
    /\ answer.path = "ema_update"
    /\ DictGet(JsonData(answer.raw_body), "ticker", PyNone) = MNQ
    /\ {"above200", "ema200"} \cap DOMAIN JsonData(answer.raw_body) = {}
    /\ MNQ \in DOMAIN LAST_TRADES
    /\ LAST_TRADES[MNQ].last_event = "new_trade"
    /\ LAST_TRADES[MNQ].ema_snapshot.above200
    /\ LAST_TRADES[MNQ].ema_snapshot.ema200 # Zero
    /\ ~EMA_STATE[MNQ].above200
    /\ EMA_STATE[MNQ].ema200 = Zero

\* The message of the update the step just taken answered.
AnsweredData == JsonData(answer.raw_body)

\* C11: an EMA update applied a second time leaves the store as the first
\* application left it, whatever the message and the store before: the store
\* an update leaves is a fixed point of that update, and a request repeating
\* the update just answered changes nothing.
C11_UpdateIsIdempotent ==
    [][\A r \in Threads :
          (Answers(r) /\ answer'.path = "ema_update")
          => /\ UpdateEmaState(EMA_STATE', JsonData(answer'.raw_body))
                    = EMA_STATE'
             /\ (answer.path = "ema_update"
                   /\ answer.raw_body = answer'.raw_body)
                => EMA_STATE' = EMA_STATE]_vars

\* An update has replaced an earlier, different snapshot of its ticker.
C11_Witness ==
    /\ answer.path = "ema_update"
    /\ nreq >= 2
    /\ MNQ \in DOMAIN EMA_STATE
    /\ DictGet(AnsweredData, "ticker", PyNone) = MNQ
    /\ EMA_STATE[MNQ] = EmaSnapshot(AnsweredData)
    /\ EMA_STATE[MNQ].above13 /\ EMA_STATE[MNQ].above200

\* The update just answered was stored: it names a ticker and did not raise.
StoredUpdate ==
    /\ answer.path = "ema_update"
    /\ ~UpdateSkipped(AnsweredData)
    /\ ~UpdateRaises(AnsweredData)

\* The field is there and its text is the word "true" in some mix of cases.
SaysTrue(data, key) ==
    /\ key \in DOMAIN data
    /\ LET c == PyStr(data[key])
       IN /\ Len(c) = 4
          /\ c[1] \in {"t", "T"}
          /\ c[2] \in {"r", "R"}
          /\ c[3] \in {"u", "U"}
          /\ c[4] \in {"e", "E"}

\* C12: the snapshot an update stores holds each flag as a boolean, true
\* exactly when the message carries the field and its text is the word
\* "true" in any mix of cases; an absent field, "false", "1" and "" give
\* false.
C12_FlagIsTrueWord ==
    StoredUpdate
    => LET t == AnsweredData["ticker"]
       IN \A key \in {"above13", "above200"} :
             /\ EMA_STATE[t][key] \in BOOLEAN
             /\ EMA_STATE[t][key] <=> SaysTrue(AnsweredData, key)
             /\ DictGet(AnsweredData, key, Str_false)
                   \in {Str_false, Str_1, Str_empty}
                => EMA_STATE[t][key] = FALSE
             /\ DictGet(AnsweredData, key, Str_false)
                   \in {Str_true, Str_TRUE, Str_True}
                => EMA_STATE[t][key] = TRUE

\* "True" in mixed case was stored as true, next to an omitted flag stored
\* as false.
C12_Witness ==
    /\ StoredUpdate
    /\ DictGet(AnsweredData, "above13", PyNone) = Str_True
    /\ "above200" \notin DOMAIN AnsweredData
    /\ EMA_STATE[MNQ].above13 = TRUE
    /\ EMA_STATE[MNQ].above200 = FALSE

\* An ema_update message whose ticker is left out or is the empty string.
TickerlessUpdate(body) ==
    /\ IsJsonObject(body)
    /\ DictGet(JsonData(body), "type", PyNone) = PyStrV(Chars_ema_update)
    /\ \/ "ticker" \notin DOMAIN JsonData(body)
       \/ JsonData(body)["ticker"] = Str_empty

\* C13: an ema_update message without a ticker, or with an empty one, that
\* passes the secret check is answered 200 {"ok": true} in the step it
\* arrives, and the step changes neither store and calls no gateway.
C13_TickerlessUpdateIsNoOp ==
    [][\A r \in Threads :
          (Arrival(r) /\ Answers(r) /\ TickerlessUpdate(answer'.raw_body)
             /\ answer'.path # "forbidden")
          => /\ answer'.path = "ema_update"
             /\ answer'.response = [status |-> 200, ok |-> TRUE]
             /\ UNCHANGED <<EMA_STATE, LAST_TRADES, gateway, th>>]_vars

\* An update with an empty ticker was acknowledged with both stores filled.
C13_Witness ==
    /\ answer.path = "ema_update"
    /\ DictGet(AnsweredData, "ticker", PyNone) = Str_empty
    /\ answer.response = [status |-> 200, ok |-> TRUE]
    /\ DOMAIN EMA_STATE = {MNQ}
    /\ DOMAIN LAST_TRADES = {MNQ}

\* With no URL configured, every call of the gateway returns the failure
\* with the given error text without calling requests.post, and the record
\* then written for the entry or exit carries that failure.
UnconfiguredFailsWith(text) ==
    LET failure == [ok |-> FALSE, error |-> text]
    IN \A r \in Threads :
          TP_WEBHOOK_URL = ""
          => /\ Sending(r)
                => /\ th'[r].result = failure
                   /\ th'[r].pc = "record"
                   /\ nposted' = nposted + 1
                   /\ nhttp' = nhttp
             /\ Recording(r)
                => /\ th[r].ticker \in DOMAIN LAST_TRADES'
                   /\ LAST_TRADES'[th[r].ticker].tp_result = failure
                   /\ LAST_TRADES'[th[r].ticker].last_event = th[r].path

\* C14 as stated: the failure returned without a configured URL reads
\* error = "endpoint not configured".
C14_ErrorIsEndpointNotConfigured ==
    [][UnconfiguredFailsWith("endpoint not configured")]_vars

\* C14: with TP_WEBHOOK_URL empty the gateway returns ok = false with
\* error = "TP_WEBHOOK_URL not set" at once, requests.post is not called, and
\* the entry or exit is still recorded in LAST_TRADES with that failure.
C14_ErrorIsUrlNotSet ==
    [][UnconfiguredFailsWith("TP_WEBHOOK_URL not set")]_vars

\* An entry decided without a configured URL was recorded with the failure,
\* no HTTP request having been made.
C14_Witness ==
    /\ TP_WEBHOOK_URL = ""
    /\ answer.path = "new_trade"
    /\ answer.response.status = 500
    /\ answer.ticker \in DOMAIN LAST_TRADES
    /\ LAST_TRADES[answer.ticker].last_event = "new_trade"
    /\ LAST_TRADES[answer.ticker].tp_result.ok = FALSE
    /\ nposted = 1
    /\ nhttp = 0

\* C15: a failed order (a non-success response, a transport error or a
\* timeout) is data, not an exception: the call of the gateway is made once,
\* posts at most once and hands its result to the handler, which goes on to
\* write the record; the record carries the failure, the caller is answered
\* 500 with ok = false and the failure as detail, and the thread is free for
\* the next request.
C15_FailureIsRecordedNotRaised ==
    [][\A r \in Threads :
          /\ Sending(r)
             => /\ th'[r].pc = "record"
                /\ th'[r].result \in SendToTraderspost(TP_WEBHOOK_URL,
                                                       th[r].tp_payload)
                /\ nposted' = nposted + 1
                /\ nhttp' \in {nhttp, nhttp + 1}
                /\ TP_WEBHOOK_URL # "" => nhttp' = nhttp + 1
                /\ LAST_TRADES' = LAST_TRADES
          /\ (Recording(r) /\ ~ResultOk(th[r].result))
             => /\ LAST_TRADES'[th[r].ticker].tp_result = th[r].result
                /\ LAST_TRADES'[th[r].ticker].last_event = th[r].path
                /\ Answers(r)
                /\ answer'.response.status = 500
                /\ answer'.response.ok = FALSE
                /\ answer'.response.detail = th[r].result
                /\ th'[r] = Idle
                /\ UNCHANGED gateway]_vars

\* After an exit whose order timed out was recorded and answered, a later
\* update is served.
C15_Witness ==
    /\ answer.path = "ema_update"
    /\ answer.response = [status |-> 200, ok |-> TRUE]
    /\ MNQ \in DOMAIN LAST_TRADES
    /\ LAST_TRADES[MNQ].tp_result = [ok |-> FALSE, error |-> "timed out"]
    /\ nposted = 1
    /\ nhttp = 1
    /\ \A r \in Threads : th[r] = Idle

\* Thread r has built the order of the signal it takes in in this step.
Builds(r) == th[r].pc = "idle" /\ th'[r].pc = "send"

Float_21065 == PyFloat(21065, <<>>)

\* C16: the order built for an entry has the fields ticker, action (buy or
\* sell), quantity exactly when TP_DEFAULT_QTY > 0, and price exactly when
\* float() accepted the price of the line; the order built for an exit has
\* ticker, action "exit", the price when there is one, and never a quantity;
\* the order sent is the order built.
C16_PayloadFields ==
    [][\A r \in Threads :
          /\ (Builds(r) /\ th'[r].path = "new_trade")
             => LET p == th'[r].tp_payload
                    line == RawText(th'[r].raw_body)
                IN /\ {"ticker", "action"} \subseteq DOMAIN p
                   /\ DOMAIN p \subseteq
                         {"ticker", "action", "quantity", "price"}
                   /\ p["ticker"] = th'[r].ticker
                   /\ p["action"] \in {"buy", "sell"}
                   /\ "quantity" \in DOMAIN p <=> TP_DEFAULT_QTY > 0
                   /\ "quantity" \in DOMAIN p
                      => p["quantity"] = TP_DEFAULT_QTY
                   /\ "price" \in DOMAIN p
                      <=> line[Len(line)].s \in {Price_21065}
                   /\ "price" \in DOMAIN p => p["price"] = Float_21065
          /\ (Builds(r) /\ th'[r].path = "exit")
             => LET p == th'[r].tp_payload
                    line == RawText(th'[r].raw_body)
                IN /\ {"ticker", "action"} \subseteq DOMAIN p
                   /\ DOMAIN p \subseteq {"ticker", "action", "price"}
                   /\ p["ticker"] = th'[r].ticker
                   /\ p["action"] = "exit"
                   /\ "price" \in DOMAIN p
                      <=> line[Len(line)].s \in {Price_21065}
                   /\ "price" \in DOMAIN p => p["price"] = Float_21065
          /\ Sending(r)
             => last_order'[th[r].ticker].payload = th[r].tp_payload]_vars

\* With a default quantity of 0, an entry whose price float() refused was
\* sent as ticker and action alone, after an exit sent without quantity.
C16_Witness ==
    /\ TP_DEFAULT_QTY = 0
    /\ \E r \in Threads :
          /\ th[r].pc = "record"
          /\ th[r].path = "new_trade"
          /\ DOMAIN th[r].tp_payload = {"ticker", "action"}
          /\ last_order[MNQ].payload = th[r].tp_payload
    /\ MNQ \in DOMAIN LAST_TRADES
    /\ LAST_TRADES[MNQ].last_event = "exit"

\* The path thread r takes with the request it takes in in this step.
PathTaken(r) == IF Answers(r) THEN answer'.path ELSE th'[r].path

MatchesEntry(text) == \E i \in 1..Len(text) : TitanAt(text, i)
MatchesExit(text) == \E i \in 1..Len(text) : ExitPriceAt(text, i) # 0

\* C17: a request that passes the secret check takes one path, by
\* precedence.  A non-empty JSON object is an EMA update or an unknown JSON
\* type and is answered at once, without an order, even when a pattern
\* matches its text; any other body that the entry pattern matches is an
\* entry, also when the exit pattern matches it, and sends no exit order;
\* then comes the exit pattern; the rest is unrecognized.
C17_ClassificationPrecedence ==
    [][\A r \in Threads :
          (Arrival(r) /\ PathTaken(r) # "forbidden")
          => LET body == ArrivedBody(r)
                 text == RawText(body)
             IN /\ NonEmptyObject(body)
                   => /\ PathTaken(r) \in {"ema_update", "unknown_json"}
                      /\ Answers(r)
                      /\ th' = th
                      /\ UNCHANGED <<LAST_TRADES, gateway>>
                /\ (~NonEmptyObject(body) /\ MatchesEntry(text))
                   => /\ PathTaken(r) = "new_trade"
                      /\ th'[r].pc = "send"
                         => th'[r].tp_payload["action"] \in {"buy", "sell"}
                /\ (~NonEmptyObject(body) /\ ~MatchesEntry(text)
                       /\ MatchesExit(text))
                   => /\ PathTaken(r) = "exit"
                      /\ th'[r].pc = "send"
                      /\ th'[r].tp_payload["action"] = "exit"
                /\ (~NonEmptyObject(body) /\ ~MatchesEntry(text)
                       /\ ~MatchesExit(text))
                   => PathTaken(r) = "unrecognized"]_vars

\* The text of both kinds is under way as an entry, no exit order having
\* been sent, after an EMA update whose text the exit pattern matches was
\* taken as an update.
C17_Witness ==
    /\ \E r \in Threads :
          /\ th[r].pc = "record"
          /\ th[r].raw_body = BothPatternsText
          /\ th[r].path = "new_trade"
          /\ last_order[MNQ].payload["action"] = "sell"
    /\ nposted = 1
    /\ MNQ \in DOMAIN EMA_STATE
    /\ LAST_TRADES = EmptyDict
    /\ MatchesExit(QuotedExit.toks)
    /\ MatchesEntry(QuotedEntry.toks)

\* The EMA state of ticker t is not the same before and after the step.
EmaChanges(t) ==
    \/ t \in DOMAIN EMA_STATE /\ t \notin DOMAIN EMA_STATE'
    \/ t \notin DOMAIN EMA_STATE /\ t \in DOMAIN EMA_STATE'
    \/ /\ t \in DOMAIN EMA_STATE \cap DOMAIN EMA_STATE'
       /\ EMA_STATE'[t] # EMA_STATE[t]

\* C18: the EMA state of a ticker changes only in a step that answers an
\* accepted ema_update naming that ticker; no step of an entry or an exit
\* (its arrival, its call of the gateway, its write of the ledger) changes
\* EMA_STATE; and a step that answers an ema_update changes neither the
\* ledger nor the gateway and leaves no order under way.
C18_StoresChangeByTheirOwnPath ==
    [][/\ \A t \in DOMAIN EMA_STATE \cup DOMAIN EMA_STATE' :
             EmaChanges(t)
             => \E r \in Threads :
                   /\ AcceptedUpdate(r)
                   /\ JsonData(answer'.raw_body)["ticker"] = t
       /\ \A r \in Threads :
             /\ (Arrival(r) /\ PathTaken(r) \in {"new_trade", "exit"})
                => EMA_STATE' = EMA_STATE
             /\ (Sending(r) \/ Recording(r)) => EMA_STATE' = EMA_STATE
             /\ (Answers(r) /\ answer'.path = "ema_update")
                => /\ LAST_TRADES' = LAST_TRADES
                   /\ UNCHANGED gateway
                   /\ th' = th]_vars

\* An entry on MNQ was sent and recorded, and the EMA state of MNQ is still
\* the snapshot the entry was decided on.
C18_Witness ==
    /\ answer.path = "new_trade"
    /\ "detail" \in DOMAIN answer.response
    /\ MNQ \in DOMAIN EMA_STATE
    /\ MNQ \in DOMAIN LAST_TRADES
    /\ LAST_TRADES[MNQ].last_event = "new_trade"
    /\ EMA_STATE[MNQ] = LAST_TRADES[MNQ].ema_snapshot
    /\ nposted = 1

\* A record of an entry: its snapshot has the six fields, its two flags
\* agree, and its direction is the one the flags give.
EntryRecordAligned(rec) ==
    /\ DOMAIN rec.ema_snapshot = SnapshotKeys
    /\ rec.ema_snapshot.above13 \in BOOLEAN
    /\ rec.ema_snapshot.above13 = rec.ema_snapshot.above200
    /\ rec.direction \in {"buy", "sell"}
    /\ rec.direction = "buy"
          <=> (rec.ema_snapshot.above13 /\ rec.ema_snapshot.above200)
    /\ rec.direction = "sell"
          <=> (~rec.ema_snapshot.above13 /\ ~rec.ema_snapshot.above200)
    /\ rec.ema13_above = rec.ema_snapshot.above13
    /\ rec.ema200_above = rec.ema_snapshot.above200

\* C19: every record of an entry in LAST_TRADES has a snapshot whose two
\* flags agree, buy with both true and sell with both false; the snapshot is
\* the EMA state of the ticker read when the entry was decided, carried
\* unchanged to the record, and no later step but a new trade on the ticker
\* changes the record: an EMA update leaves the ledger as it is.
C19_EntryRecordKeepsItsSnapshot ==
    [][/\ \A t \in DOMAIN LAST_TRADES' :
             LAST_TRADES'[t].last_event = "new_trade"
             => EntryRecordAligned(LAST_TRADES'[t])
       /\ \A r \in Threads :
             /\ (Builds(r) /\ th'[r].path = "new_trade")
                => th'[r].ema_info = EMA_STATE[th'[r].ticker]
             /\ (Sending(r) /\ th[r].path = "new_trade")
                => th'[r].ema_info = th[r].ema_info
             /\ (Recording(r) /\ th[r].path = "new_trade")
                => LAST_TRADES'[th[r].ticker].ema_snapshot = th[r].ema_info
       /\ LAST_TRADES' # LAST_TRADES
          => \E r \in Threads :
                /\ Recording(r)
                /\ \A t \in DOMAIN LAST_TRADES \ {th[r].ticker} :
                      /\ t \in DOMAIN LAST_TRADES'
                      /\ LAST_TRADES'[t] = LAST_TRADES[t]]_vars

\* The record of a long entry on MNQ still has the snapshot it was decided
\* on after an update gave MNQ another EMA state.
C19_Witness ==
    /\ answer.path = "ema_update"
    /\ MNQ \in DOMAIN LAST_TRADES
    /\ LAST_TRADES[MNQ].last_event = "new_trade"
    /\ LAST_TRADES[MNQ].direction = "buy"
    /\ LAST_TRADES[MNQ].ema_snapshot.above13
    /\ LAST_TRADES[MNQ].ema_snapshot.above200
    /\ EMA_STATE[MNQ] # LAST_TRADES[MNQ].ema_snapshot
    /\ ~EMA_STATE[MNQ].above13

\* The requests whose call of the gateway is still to come.
ToSend(frames) == {r \in Threads : frames[r].pc = "send"}

\* C20: a request calls the gateway at most once: a handler reaches its call
\* only from the arrival of its request, the call is one call for the ticker
\* of the request, and what follows it is the write of the ledger, which
\* records the result of that call under the same ticker and ends the
\* request.  The ledger is written by no other step, so a ticker has a
\* record only if an order was sent for it, calls never outnumber requests,
\* and no step removes a key from EMA_STATE or LAST_TRADES.
C20_OneCallBeforeEachRecord ==
    [][/\ \A r \in Threads :
             /\ Sending(r)
                => /\ nposted' = nposted + 1
                   /\ th'[r].pc = "record"
                   /\ th'[r].ticker = th[r].ticker
                   /\ th[r].tp_payload["ticker"] = th[r].ticker
                   /\ last_order'[th[r].ticker]
                         = [payload |-> th[r].tp_payload,
                            result |-> th'[r].result]
                   /\ LAST_TRADES' = LAST_TRADES
             /\ Recording(r)
                => /\ nposted' = nposted
                   /\ th[r].ticker \in DOMAIN last_order
                   /\ LAST_TRADES'[th[r].ticker].tp_result = th[r].result
                   /\ th'[r] = Idle
             /\ (th'[r] # th[r] /\ th'[r].pc = "record") => Sending(r)
             /\ (th'[r] # th[r] /\ th'[r].pc = "send")
                => Arrival(r) /\ nposted' = nposted
       /\ nposted' # nposted
          => \E r \in Threads : Sending(r) /\ (\A q \in Threads \ {r} :
                                                 th'[q] = th[q])
       /\ LAST_TRADES' # LAST_TRADES => \E r \in Threads : Recording(r)
       /\ nposted' + Cardinality(ToSend(th')) <= nreq'
       /\ DOMAIN LAST_TRADES' \subseteq DOMAIN last_order'
       /\ DOMAIN EMA_STATE \subseteq DOMAIN EMA_STATE'
       /\ DOMAIN LAST_TRADES \subseteq DOMAIN LAST_TRADES']_vars

\* Three requests gave two orders for MNQ and none for ES: MNQ has a record
\* and an EMA state, ES has an EMA state and no record.
C20_Witness ==
    /\ nreq = 3
    /\ nposted = 2
    /\ \A r \in Threads : th[r] = Idle
    /\ DOMAIN LAST_TRADES = {MNQ}
    /\ DOMAIN last_order = {MNQ}
    /\ LAST_TRADES[MNQ].tp_result = last_order[MNQ].result
    /\ ES \in DOMAIN EMA_STATE
====
